---- MODULE Spec2Model ----
(***************************************************************************)
(* Model of matrix/encryption.py of weechat-matrix: the Olm manager class  *)
(* (pairwise session registry, inbound group session registry, the three   *)
(* sqlite tables) and the encrypt_enabled capability gate.                 *)
(*                                                                         *)
(* The olm library (Account, Session, InboundSession, InboundGroupSession) *)
(* is an external provider.  It is modelled by the smallest state that     *)
(* makes its observable behaviour at the call sites of encryption.py       *)
(* deterministic: a session is its identity and a ratchet counter, an      *)
(* account is its pool of one-time keys and a published flag, a pickle is  *)
(* a wrapper around the pickled object.                                    *)
(***************************************************************************)
EXTENDS Integers, Sequences, FiniteSets, TLC

(***************************************************************************)
(* Bounds of the model.                                                    *)
(***************************************************************************)
\* message indices of a pairwise ratchet run from 0 to MaxIndex
MaxIndex == 1
\* message indices of a megolm ratchet run from 0 to MaxGroupIndex
MaxGroupIndex == 1
\* rows the inbound_group_sessions table may grow to
MaxGroupRows == 2
\* rows the olmaccount table may grow to
MaxAccountRows == 2
\* sessions and group sessions that may be registered without a row, each
\* left behind by a call whose store statement failed
MaxUnstored == 1

\* key strings run to MaxKeyLen characters
MaxKeyLen == 8

Senders == {"@alice", "@bob"}
Rooms == {"!room1", "!room2"}
\* identities of the one-time keys the account holds; an inbound session
\* takes the identity of the one-time key it was built from
OneTimeKeys == {"otk1", "otk2"}
\* megolm session keys that can be shared with this device; the session
\* built from a key takes the key's identity
GroupKeys == {"megolm1", "megolm2"}
\* a session key the provider rejects
MalformedKey == "malformed"
\* session identities a caller may pass to create_group_session/group_decrypt
GroupSessionIds == GroupKeys
Indices == 0..MaxIndex
GroupIndices == 0..MaxGroupIndex

\* self.user of the manager under study
user == "@me"

(***************************************************************************)
(* The provider.                                                           *)
(***************************************************************************)
\* An inbound olm message: OlmPreKeyMessage (prekey) or OlmMessage.  sid is
\* the session the sender encrypted it for (for a pre-key message, the
\* one-time key it names), index its place in the ratchet, mac whether the
\* payload authenticates.
Messages == [prekey : BOOLEAN, sid : OneTimeKeys, index : Indices, mac : BOOLEAN]

\* A megolm ciphertext: the group session it was produced under, its index.
Ciphertexts == [gid : GroupKeys, index : GroupIndices]

\* Account(): a fresh account with its pool of one-time keys
NewAccount == [otks |-> OneTimeKeys, published |-> FALSE]

\* obj.pickle() and Cls.from_pickle(blob)
Pickle(obj) == [pickled |-> obj]
FromPickle(blob) == blob.pickled
\* a blob that is no pickle of anything: from_pickle raises on it
CorruptBlob == [corrupt |-> TRUE]
PickleRejected(blob) == "corrupt" \in DOMAIN blob

\* Session.matches(message)
SessionMatches(session, message) == message.sid = session.id

\* Session.decrypt(message) returns (no OlmSessionError)
SessionDecryptOk(session, message) ==
    /\ message.sid = session.id
    /\ message.mac
    /\ message.index >= session.ctr

\* the session after a successful Session.decrypt(message)
SessionAfterDecrypt(session, message) == [session EXCEPT !.ctr = message.index + 1]

\* the plaintext Session.decrypt(message) returns
PlaintextOf(message) == <<message.sid, message.index>>

\* InboundSession(account, message, sender_key) returns (no OlmSessionError):
\* the message is a pre-key message and names a one-time key the account
\* still holds
InboundSessionOk(acc, message) ==
    /\ message.prekey
    /\ message.sid \in acc.otks

\* the session InboundSession(account, message, sender_key) constructs
InboundSession(message) == [id |-> message.sid, ctr |-> 0]

\* faulty variant of line 234: the one-time key a new session was created
\* from is not removed from the account
RemoveOneTimeKeysNever(acc, session) == acc

\* Account.remove_one_time_keys(session)
RemoveOneTimeKeys(acc, session) == [acc EXCEPT !.otks = @ \ {session.id}]

\* InboundGroupSession(session_key)
InboundGroupSession(session_key) == [id |-> session_key, ctr |-> 0]

\* InboundGroupSession.decrypt(ciphertext) returns (no OlmGroupSessionError)
GroupDecryptOk(session, ciphertext) == ciphertext.gid = session.id

\* the group session after a successful decrypt: the latest ratchet moves
\* forward to the message's index, never back
GroupAfterDecrypt(session, ciphertext) ==
    [session EXCEPT !.ctr = IF ciphertext.index > @ THEN ciphertext.index ELSE @]

GroupPlaintextOf(ciphertext) == <<ciphertext.gid, ciphertext.index>>

\* Key strings handed to partition_key: every string of up to MaxKeyLen
\* characters over two characters of the base64 alphabet, and one string
\* each of 30 and of 32 characters
KeyChars == {"A", "b"}
Key32 == [i \in 1 .. 32 |-> IF i % 2 = 1 THEN "A" ELSE "b"]
Key30 == SubSeq(Key32, 1, 30)
Keys == UNION {[1 .. n -> KeyChars] : n \in 0 .. MaxKeyLen} \cup {Key30, Key32}

(***************************************************************************)
(* State.                                                                  *)
(***************************************************************************)
VARIABLES
    ENCRYPTION,                \* matrix.globals.ENCRYPTION
    account,                   \* self.account
    sessions,                  \* self.sessions: sender -> list of sessions
    inbound_group_sessions,    \* self.inbound_group_sessions: room -> dict
    db_olmaccount,             \* table olmaccount(user, pickle)
    db_olmsessions,            \* table olmsessions(user, session_id, pickle)
    db_inbound_group_sessions, \* table inbound_group_sessions(room_id, session_id, pickle)
    lastCall                   \* the last call made on the manager and its outcome

vars == <<ENCRYPTION, account, sessions, inbound_group_sessions,
          db_olmaccount, db_olmsessions, db_inbound_group_sessions, lastCall>>

registry == <<account, sessions, inbound_group_sessions>>
store == <<db_olmaccount, db_olmsessions, db_inbound_group_sessions>>

\* a Python dict as a set of entries, one per key
DictKeys(d) == {e.key : e \in d}
DictGet(d, k) == (CHOOSE e \in d : e.key = k).value
\* d[k] = v: the entry under k, if any, is replaced
DictSet(d, k, v) == {e \in d : e.key # k} \cup {[key |-> k, value |-> v]}

NoMessage == [prekey |-> FALSE, sid |-> "", index |-> 0, mac |-> FALSE]
NoCiphertext == [gid |-> "", index |-> 0]

\* the record of a call: what was called with which arguments, what it
\* returned ("None", "plaintext", "signature", "Olm", "str") or that it
\* raised and which exception, which provider calls it made on the way, and
\* the persistence helper in which sqlite3 raised, if one did
Call(op, ret) ==
    [op |-> op, ret |-> ret, plaintext |-> <<>>, error |-> "",
     sender |-> "", message |-> NoMessage,
     consulted |-> <<>>, attempted |-> <<>>, hit |-> 0,
     create_called |-> FALSE, created |-> FALSE, retried |-> FALSE,
     room_id |-> "", session_id |-> "", ciphertext |-> NoCiphertext,
     session_key |-> "", key |-> <<>>, rendered |-> <<>>,
     store_failed |-> ""]


(***************************************************************************)
(* Persistence helpers of Olm.  Each returns the table after the statement.*)
(***************************************************************************)
\* _insert_acc_to_db: insert into olmaccount values (user, pickle)
InsertAccToDb(table, acc) == Append(table, [user |-> user, pickle |-> Pickle(acc)])

\* _update_acc_in_db: update olmaccount set pickle=? where user = ?
UpdateAccInDb(table, acc) ==
    [i \in DOMAIN table |->
        IF table[i].user = user THEN [table[i] EXCEPT !.pickle = Pickle(acc)]
        ELSE table[i]]

\* faulty variant of _store_session: the insert is lost
StoreSessionLost(table, sender, session) == table

\* _store_session: insert into olmsessions values (user, session.id(), pickle)
StoreSession(table, sender, session) ==
    Append(table, [user |-> sender, session_id |-> session.id, pickle |-> Pickle(session)])

\* the positions of session_list holding a session with identity sid
PositionsOf(session_list, sid) == {k \in DOMAIN session_list : session_list[k].id = sid}

Maximum(S) == CHOOSE x \in S : \A y \in S : y <= x

\* _update_sessions_in_db: for every session of every sender, in list order,
\* update olmsessions set pickle=? where user = ? and session_id = ?
UpdateSessionsInDb(table, sess) ==
    [i \in DOMAIN table |->
        LET row == table[i]
            hits == IF row.user \in DOMAIN sess
                    THEN PositionsOf(sess[row.user], row.session_id) ELSE {}
        IN IF hits = {} THEN row
           ELSE [row EXCEPT !.pickle = Pickle(sess[row.user][Maximum(hits)])]]

\* _store_inbound_group_session: insert into inbound_group_sessions
\* values (room_id, session.id, pickle)
StoreInboundGroupSession(table, room_id, session) ==
    Append(table, [room_id |-> room_id, session_id |-> session.id,
                   pickle |-> Pickle(session)])

(***************************************************************************)
(* Olm.__init__ on a store that does not exist yet.                        *)
(***************************************************************************)
EmptySessions == [s \in Senders |-> <<>>]
EmptyGroupSessions == [r \in Rooms |-> {}]

Init ==
    /\ ENCRYPTION \in BOOLEAN
    /\ sessions = EmptySessions
    /\ inbound_group_sessions = EmptyGroupSessions
    /\ db_olmsessions = <<>>
    /\ db_inbound_group_sessions = <<>>
    /\ IF ENCRYPTION
       THEN /\ account = NewAccount
            /\ db_olmaccount = InsertAccToDb(<<>>, NewAccount)
            /\ lastCall = Call("__init__", "Olm")
       \* the gate is off: __init__ returns before it sets any attribute or
       \* opens the database
       ELSE /\ account = [otks |-> {}, published |-> FALSE]
            /\ db_olmaccount = <<>>
            /\ lastCall = Call("__init__", "None")

\* Olm(user, device_id, session_path) called again on the store that is
\* already there, without a database and without an account: the manager is
\* replaced by a new one with a new Account and empty registries, and
\* _insert_acc_to_db runs whatever the olmaccount table holds
OlmInit ==
    /\ Len(db_olmaccount) < MaxAccountRows
    /\ UNCHANGED <<ENCRYPTION, db_olmsessions, db_inbound_group_sessions>>
    /\ IF ~ENCRYPTION
       THEN /\ lastCall' = Call("__init__", "None")
            /\ UNCHANGED <<registry, db_olmaccount>>
       ELSE /\ account' = NewAccount
            /\ db_olmaccount' = InsertAccToDb(db_olmaccount, NewAccount)
            /\ sessions' = EmptySessions
            /\ inbound_group_sessions' = EmptyGroupSessions
            /\ lastCall' = Call("__init__", "Olm")

(***************************************************************************)
(* Olm.decrypt                                                             *)
(***************************************************************************)
\* faulty variant of lines 251-253: matches() is never asked
SkipSessionNever(session, message) == FALSE

\* lines 251-253: a pre-key message is only tried on a session it matches
SkipSession(session, message) == message.prekey /\ ~SessionMatches(session, message)

\* faulty variant of the for loop of decrypt: the first OlmSessionError ends
\* the loop instead of passing on to the next session
RECURSIVE TryExistingGiveUp(_, _, _, _, _)
TryExistingGiveUp(session_list, message, i, consulted, attempted) ==
    IF i > Len(session_list)
    THEN [hit |-> 0, consulted |-> consulted, attempted |-> attempted]
    ELSE LET session == session_list[i]
             seen == IF message.prekey THEN Append(consulted, i) ELSE consulted
         IN IF message.prekey /\ ~SessionMatches(session, message)
            THEN TryExistingGiveUp(session_list, message, i + 1, seen, attempted)
            ELSE IF SessionDecryptOk(session, message)
                 THEN [hit |-> i, consulted |-> seen, attempted |-> Append(attempted, i)]
                 ELSE [hit |-> 0, consulted |-> seen, attempted |-> Append(attempted, i)]

\* the for loop of decrypt over self.sessions[sender], from position i on:
\* the position of the session that decrypted (0: none), the positions
\* whose matches() was consulted and those whose decrypt() was called
RECURSIVE TryExisting(_, _, _, _, _)
TryExisting(session_list, message, i, consulted, attempted) ==
    IF i > Len(session_list)
    THEN [hit |-> 0, consulted |-> consulted, attempted |-> attempted]
    ELSE LET session == session_list[i]
             seen == IF message.prekey THEN Append(consulted, i) ELSE consulted
         IN IF SkipSession(session, message)
            THEN TryExisting(session_list, message, i + 1, seen, attempted)
            ELSE IF SessionDecryptOk(session, message)
                 THEN [hit |-> i, consulted |-> seen, attempted |-> Append(attempted, i)]
                 ELSE TryExisting(session_list, message, i + 1, seen,
                                  Append(attempted, i))

\* faulty variant of the end of decrypt: a new session whose one decryption
\* attempt failed is created and tried a second time
BootstrappedTwice(session_list, session, message) ==
    IF SessionDecryptOk(session, message)
    THEN Append(session_list, SessionAfterDecrypt(session, message))
    ELSE Append(Append(session_list, session), session)

\* faulty variant of line 232: the new session is put in front of the list
BootstrappedInFront(session_list, session, message) ==
    IF SessionDecryptOk(session, message)
    THEN <<SessionAfterDecrypt(session, message)>> \o session_list
    ELSE <<session>> \o session_list

\* faulty variant of lines 265-269: a new session whose decryption attempt
\* failed is taken out of the list again
BootstrappedRolledBack(session_list, session, message) ==
    IF SessionDecryptOk(session, message)
    THEN Append(session_list, SessionAfterDecrypt(session, message))
    ELSE session_list

\* line 232 and lines 265-269: the sender's list after a bootstrap.  The new
\* session is appended once and decrypt is called on it once; it advances
\* if that call succeeds and stays in the list as created if it fails
Bootstrapped(session_list, session, message) ==
    IF SessionDecryptOk(session, message)
    THEN Append(session_list, SessionAfterDecrypt(session, message))
    ELSE Append(session_list, session)

Decrypt(sender, message) ==
    LET call == [Call("decrypt", "None") EXCEPT
                    !.sender = sender, !.message = message]
        loop == TryExisting(sessions[sender], message, 1, <<>>, <<>>)
        traced == [call EXCEPT !.consulted = loop.consulted,
                               !.attempted = loop.attempted, !.hit = loop.hit]
        session == InboundSession(message)
        retry_ok == SessionDecryptOk(session, message)
    IN
    /\ UNCHANGED <<ENCRYPTION, inbound_group_sessions, db_inbound_group_sessions>>
    /\ IF ~ENCRYPTION
       THEN /\ lastCall' = call
            /\ UNCHANGED <<account, sessions, db_olmaccount, db_olmsessions>>
       ELSE IF loop.hit # 0
       THEN \* lines 255-256
            /\ sessions' = [sessions EXCEPT
                   ![sender][loop.hit] = SessionAfterDecrypt(@, message)]
            /\ lastCall' = [traced EXCEPT !.ret = "plaintext",
                                          !.plaintext = PlaintextOf(message)]
            /\ UNCHANGED <<account, db_olmaccount, db_olmsessions>>
       ELSE IF ~InboundSessionOk(account, message)
       THEN \* lines 260-263: _create_session raised OlmSessionError
            /\ lastCall' = [traced EXCEPT !.create_called = TRUE]
            /\ UNCHANGED <<account, sessions, db_olmaccount, db_olmsessions>>
       ELSE \* _create_session, lines 228-237, then lines 265-269
            /\ account' = RemoveOneTimeKeys(account, session)
            /\ db_olmaccount' = UpdateAccInDb(db_olmaccount, account')
            /\ sessions' = [sessions EXCEPT ![sender] = Bootstrapped(@, session, message)]
            /\ db_olmsessions' = StoreSession(db_olmsessions, sender, session)
            /\ lastCall' = [traced EXCEPT
                   !.create_called = TRUE, !.created = TRUE, !.retried = TRUE,
                   !.ret = IF retry_ok THEN "plaintext" ELSE "None",
                   !.plaintext = IF retry_ok THEN PlaintextOf(message) ELSE <<>>]

DecryptAny ==
    \E sender \in Senders, message \in Messages : Decrypt(sender, message)

\* decrypt of the authentic first message of a session
DecryptFirst ==
    \E sender \in Senders, message \in Messages :
        /\ message.prekey /\ message.mac /\ message.index = 0
        /\ Decrypt(sender, message)


(***************************************************************************)
(* Olm.create_group_session and Olm.group_decrypt                          *)
(***************************************************************************)
\* faulty variant of line 242: the new session is kept beside the one that
\* is already registered under (room_id, session_id)
RegisterGroupSessionBeside(igs, room_id, session_id, session) ==
    [igs EXCEPT ![room_id] = @ \cup {[key |-> session_id, value |-> session]}]

\* line 242: self.inbound_group_sessions[room_id][session_id] = session
RegisterGroupSession(igs, room_id, session_id, session) ==
    [igs EXCEPT ![room_id] = DictSet(@, session_id, session)]

CreateGroupSession(room_id, session_id, session_key) ==
    LET call == [Call("create_group_session", "None") EXCEPT
                    !.room_id = room_id, !.session_id = session_id,
                    !.session_key = session_key]
        session == InboundGroupSession(session_key)
    IN
    /\ Len(db_inbound_group_sessions) < MaxGroupRows
    /\ UNCHANGED <<ENCRYPTION, account, sessions, db_olmaccount, db_olmsessions>>
    /\ IF ~ENCRYPTION \/ session_key = MalformedKey
       \* not wrapped by encrypt_enabled: with the gate off the method body
       \* runs without the olm names or the manager's attributes and raises;
       \* with it on, a malformed key raises OlmGroupSessionError
       THEN /\ lastCall' = [call EXCEPT !.ret = "raised"]
            /\ UNCHANGED <<inbound_group_sessions, db_inbound_group_sessions>>
       ELSE /\ inbound_group_sessions' =
                   RegisterGroupSession(inbound_group_sessions, room_id, session_id, session)
            /\ db_inbound_group_sessions' =
                   StoreInboundGroupSession(db_inbound_group_sessions, room_id, session)
            /\ lastCall' = call

CreateGroupSessionAny ==
    \E room_id \in Rooms, session_id \in GroupSessionIds, session_key \in GroupKeys \cup {MalformedKey} :
        CreateGroupSession(room_id, session_id, session_key)

\* lines 273-274: the lookup of group_decrypt
GroupSessionKnown(igs, room_id, session_id) == session_id \in DictKeys(igs[room_id])

\* faulty variant of group_decrypt: a session identity that is not known is
\* registered on the way, as decrypt does for pairwise sessions
GroupDecryptRegistryImplicit(igs, room_id, session_id, ciphertext) ==
    IF GroupSessionKnown(igs, room_id, session_id)
    THEN IF GroupDecryptOk(DictGet(igs[room_id], session_id), ciphertext)
         THEN [igs EXCEPT ![room_id] =
                 DictSet(@, session_id,
                         GroupAfterDecrypt(DictGet(igs[room_id], session_id), ciphertext))]
         ELSE igs
    ELSE [igs EXCEPT ![room_id] =
            DictSet(@, session_id, InboundGroupSession(ciphertext.gid))]

\* the registry after group_decrypt: the session found under
\* (room_id, session_id), if it decrypts, advances in place
GroupDecryptRegistry(igs, room_id, session_id, ciphertext) ==
    IF /\ GroupSessionKnown(igs, room_id, session_id)
       /\ GroupDecryptOk(DictGet(igs[room_id], session_id), ciphertext)
    THEN [igs EXCEPT ![room_id] =
            DictSet(@, session_id,
                    GroupAfterDecrypt(DictGet(igs[room_id], session_id), ciphertext))]
    ELSE igs

GroupDecrypt(room_id, session_id, ciphertext) ==
    LET call == [Call("group_decrypt", "None") EXCEPT
                    !.room_id = room_id, !.session_id = session_id,
                    !.ciphertext = ciphertext]
    IN
    /\ UNCHANGED <<ENCRYPTION, account, sessions, store>>
    /\ IF ~ENCRYPTION
       THEN /\ lastCall' = call
            /\ UNCHANGED inbound_group_sessions
       ELSE /\ inbound_group_sessions' =
                   GroupDecryptRegistry(inbound_group_sessions, room_id, session_id, ciphertext)
            /\ lastCall' =
                   IF /\ GroupSessionKnown(inbound_group_sessions, room_id, session_id)
                      /\ GroupDecryptOk(DictGet(inbound_group_sessions[room_id], session_id),
                                        ciphertext)
                   THEN [call EXCEPT !.ret = "plaintext",
                                     !.plaintext = GroupPlaintextOf(ciphertext)]
                   ELSE call

GroupDecryptAny ==
    \E room_id \in Rooms, session_id \in GroupSessionIds, ciphertext \in Ciphertexts :
        GroupDecrypt(room_id, session_id, ciphertext)

(***************************************************************************)
(* Olm.to_session_dir (save) and Olm.from_session_dir (load)               *)
(***************************************************************************)
ToSessionDir ==
    /\ UNCHANGED <<ENCRYPTION, registry, db_inbound_group_sessions>>
    /\ lastCall' = Call("to_session_dir", "None")
    /\ IF ~ENCRYPTION
       THEN UNCHANGED <<db_olmaccount, db_olmsessions>>
       ELSE /\ db_olmaccount' = UpdateAccInDb(db_olmaccount, account)
            /\ db_olmsessions' = UpdateSessionsInDb(db_olmsessions, sessions)

\* lines 313-315: every olmsessions row, in row order, appended to the list
\* of its user
RECURSIVE LoadSessions(_, _, _)
LoadSessions(rows, i, sess) ==
    IF i > Len(rows) THEN sess
    ELSE LoadSessions(rows, i + 1,
            [sess EXCEPT ![rows[i].user] = Append(@, FromPickle(rows[i].pickle))])

\* lines 317-320: every inbound_group_sessions row, in row order, registered
\* under its room and the unpickled session's own id
RECURSIVE LoadGroupSessions(_, _, _)
LoadGroupSessions(rows, i, igs) ==
    IF i > Len(rows) THEN igs
    ELSE LET session == FromPickle(rows[i].pickle)
         IN LoadGroupSessions(rows, i + 1,
                [igs EXCEPT ![rows[i].room_id] = DictSet(@, session.id, session)])

\* lines 295-297: the first olmaccount row of the user
AccountRow(table) == table[CHOOSE i \in DOMAIN table :
                              /\ table[i].user = user
                              /\ \A j \in DOMAIN table : table[j].user = user => i <= j]

\* lines 310-320: the exception of the first from_pickle call that rejects
\* its blob, in the order the calls are made: Account, then every Session,
\* then every InboundGroupSession ("": none raises)
LoadRaises(acc_table, sess_table, group_table) ==
    IF PickleRejected(AccountRow(acc_table).pickle) THEN "OlmAccountError"
    ELSE IF \E i \in DOMAIN sess_table : PickleRejected(sess_table[i].pickle)
    THEN "OlmSessionError"
    ELSE IF \E i \in DOMAIN group_table : PickleRejected(group_table[i].pickle)
    THEN "OlmGroupSessionError"
    ELSE ""

\* line 324: the exceptions the except clause of from_session_dir names
LoadHandles == {"OlmAccountError", "OlmSessionError"}

\* lines 324-325: what leaves the try statement when exception is raised
\* inside it
LoadError(exception) ==
    IF exception \in LoadHandles THEN "EncryptionError" ELSE exception

\* the process is restarted (or has crashed) and the manager is rebuilt from
\* the store: whatever was only in memory is gone.  When a from_pickle call
\* raises, cls(...) is never reached: the classmethod builds no manager and
\* touches none
FromSessionDir ==
    /\ UNCHANGED <<ENCRYPTION, store>>
    /\ IF ~ENCRYPTION
       THEN /\ lastCall' = Call("from_session_dir", "None")
            /\ UNCHANGED registry
       ELSE IF LoadRaises(db_olmaccount, db_olmsessions, db_inbound_group_sessions) # ""
       THEN /\ lastCall' = [Call("from_session_dir", "raised") EXCEPT
                   !.error = LoadError(LoadRaises(db_olmaccount, db_olmsessions,
                                                  db_inbound_group_sessions))]
            /\ UNCHANGED registry
       ELSE /\ account' = FromPickle(AccountRow(db_olmaccount).pickle)
            /\ sessions' = LoadSessions(db_olmsessions, 1, EmptySessions)
            /\ inbound_group_sessions' =
                   LoadGroupSessions(db_inbound_group_sessions, 1, EmptyGroupSessions)
            /\ lastCall' = Call("from_session_dir", "Olm")

\* A pickle column of the store is damaged outside the program (or the
\* pickle key has changed): the blob of one row is no longer a pickle
CorruptAccount ==
    /\ ENCRYPTION
    /\ \E i \in DOMAIN db_olmaccount :
          /\ ~PickleRejected(db_olmaccount[i].pickle)
          /\ db_olmaccount' = [db_olmaccount EXCEPT ![i].pickle = CorruptBlob]
    /\ UNCHANGED <<ENCRYPTION, registry, db_olmsessions, db_inbound_group_sessions, lastCall>>

CorruptSession ==
    /\ \E i \in DOMAIN db_olmsessions :
          /\ ~PickleRejected(db_olmsessions[i].pickle)
          /\ db_olmsessions' = [db_olmsessions EXCEPT ![i].pickle = CorruptBlob]
    /\ UNCHANGED <<ENCRYPTION, registry, db_olmaccount, db_inbound_group_sessions, lastCall>>

CorruptGroupSession ==
    /\ \E i \in DOMAIN db_inbound_group_sessions :
          /\ ~PickleRejected(db_inbound_group_sessions[i].pickle)
          /\ db_inbound_group_sessions' =
                 [db_inbound_group_sessions EXCEPT ![i].pickle = CorruptBlob]
    /\ UNCHANGED <<ENCRYPTION, registry, db_olmaccount, db_olmsessions, lastCall>>

(***************************************************************************)
(* Olm.mark_keys_as_published and Olm.sign_json                            *)
(***************************************************************************)
MarkKeysAsPublished ==
    /\ UNCHANGED <<ENCRYPTION, sessions, inbound_group_sessions, store>>
    /\ lastCall' = Call("mark_keys_as_published", "None")
    /\ IF ~ENCRYPTION
       THEN UNCHANGED account
       ELSE account' = [account EXCEPT !.published = TRUE]

\* not wrapped by encrypt_enabled: with the gate off self.account was never
\* set and the attribute lookup raises
SignJson ==
    /\ UNCHANGED <<ENCRYPTION, registry, store>>
    /\ lastCall' = Call("sign_json", IF ENCRYPTION THEN "signature" ELSE "raised")

(***************************************************************************)
(* Calls during which a statement on the store fails: sqlite3 raises       *)
(* inside one of the persistence helpers.                                  *)
(***************************************************************************)
\* faulty variant of lines 262 and 268: a bare except
DecryptHandlesAll == {"OlmSessionError", "sqlite3.Error"}

\* lines 257, 262 and 268: the exceptions the except clauses of decrypt name
DecryptHandles == {"OlmSessionError"}

\* line 416: the exception the except clause of to_session_dir names
ToSessionDirHandles == {"OlmAccountError"}

\* what the caller of a method sees when exception is raised inside a try
\* statement of the method whose except clause names handles and whose
\* handler ends the call as handled does
Escapes(call, exception, handles, handled) ==
    IF exception \in handles THEN handled
    ELSE [call EXCEPT !.ret = "raised", !.error = exception]

\* registered sessions and group sessions beyond the rows of their tables
Unstored ==
    Cardinality({<<sender, i>> \in Senders \X (1 .. (MaxUnstored + Cardinality(OneTimeKeys))) :
                     i \in DOMAIN sessions[sender]})
    + Cardinality(UNION {{<<room_id, e>> : e \in inbound_group_sessions[room_id]} :
                            room_id \in Rooms})
    - Len(db_olmsessions) - Len(db_inbound_group_sessions)

\* decrypt reaches _create_session (lines 260-261) and sqlite3 raises in
\* helper at: in _store_session (line 233), after the session was appended
\* (line 232), or in _update_acc_in_db (line 235), after the row was
\* inserted and the one-time key removed from the account (line 234)
DecryptStoreFails(sender, message, at) ==
    LET loop == TryExisting(sessions[sender], message, 1, <<>>, <<>>)
        session == InboundSession(message)
        call == [Call("decrypt", "None") EXCEPT
                    !.sender = sender, !.message = message,
                    !.consulted = loop.consulted, !.attempted = loop.attempted,
                    !.create_called = TRUE, !.store_failed = at]
    IN
    /\ ENCRYPTION
    /\ loop.hit = 0
    /\ InboundSessionOk(account, message)
    /\ Unstored < MaxUnstored
    /\ UNCHANGED <<ENCRYPTION, inbound_group_sessions, db_inbound_group_sessions,
                   db_olmaccount>>
    /\ sessions' = [sessions EXCEPT ![sender] = Append(@, session)]
    /\ IF at = "_store_session"
       THEN UNCHANGED <<account, db_olmsessions>>
       ELSE /\ db_olmsessions' = StoreSession(db_olmsessions, sender, session)
            /\ account' = RemoveOneTimeKeys(account, session)
    /\ lastCall' = Escapes(call, "sqlite3.Error", DecryptHandles, call)

DecryptStoreFailsAny ==
    \E sender \in Senders, message \in Messages,
       at \in {"_store_session", "_update_acc_in_db"} :
        DecryptStoreFails(sender, message, at)

\* create_group_session registers the session (line 242) and sqlite3 raises
\* in _store_inbound_group_session (line 243); the method has no try
CreateGroupSessionStoreFails(room_id, session_id, session_key) ==
    LET call == [Call("create_group_session", "None") EXCEPT
                    !.room_id = room_id, !.session_id = session_id,
                    !.session_key = session_key,
                    !.store_failed = "_store_inbound_group_session"]
    IN
    /\ ENCRYPTION
    /\ Unstored < MaxUnstored
    /\ UNCHANGED <<ENCRYPTION, account, sessions, store>>
    /\ inbound_group_sessions' =
           RegisterGroupSession(inbound_group_sessions, room_id, session_id,
                                InboundGroupSession(session_key))
    /\ lastCall' = Escapes(call, "sqlite3.Error", {}, call)

CreateGroupSessionStoreFailsAny ==
    \E room_id \in Rooms, session_id \in GroupSessionIds, session_key \in GroupKeys :
        CreateGroupSessionStoreFails(room_id, session_id, session_key)

\* to_session_dir: sqlite3 raises in _update_acc_in_db (line 414), or in
\* _update_sessions_in_db (line 415) after the account row was rewritten
ToSessionDirStoreFails ==
    \E at \in {"_update_acc_in_db", "_update_sessions_in_db"} :
        LET call == [Call("to_session_dir", "None") EXCEPT !.store_failed = at]
        IN
        /\ ENCRYPTION
        /\ UNCHANGED <<ENCRYPTION, registry, db_olmsessions, db_inbound_group_sessions>>
        /\ db_olmaccount' = IF at = "_update_acc_in_db" THEN db_olmaccount
                            ELSE UpdateAccInDb(db_olmaccount, account)
        /\ lastCall' = Escapes(call, "sqlite3.Error", ToSessionDirHandles,
                               [call EXCEPT !.ret = "raised",
                                            !.error = "EncryptionError"])

\* from_session_dir: sqlite3 raises in one of the reads of lines 290-305,
\* which stand before the try statement
FromSessionDirStoreFails ==
    LET call == [Call("from_session_dir", "None") EXCEPT !.store_failed = "select"]
    IN
    /\ ENCRYPTION
    /\ UNCHANGED <<ENCRYPTION, registry, store>>
    /\ lastCall' = Escapes(call, "sqlite3.Error", {}, call)

(***************************************************************************)
(* partition_key: a key string is a sequence of characters.                *)
(***************************************************************************)
\* faulty variant of grouper: zip in place of zip_longest, which drops a
\* last chunk that is not full
grouperZip(iterable, n, fillvalue) ==
    [k \in 1 .. (Len(iterable) \div n) |-> SubSeq(iterable, n * (k - 1) + 1, n * k)]

\* grouper: zip_longest over n references to one iterator.  Each tuple takes
\* the next n items; where the iterator runs out inside a tuple the rest of
\* the tuple is fillvalue; no tuple is begun once it has run out
RECURSIVE grouper(_, _, _)
grouper(iterable, n, fillvalue) ==
    IF iterable = <<>> THEN <<>>
    ELSE LET chunk == [j \in 1 .. n |->
                          IF j <= Len(iterable) THEN iterable[j] ELSE fillvalue]
             rest == IF Len(iterable) <= n THEN <<>>
                     ELSE SubSeq(iterable, n + 1, Len(iterable))
         IN <<chunk>> \o grouper(rest, n, fillvalue)

\* sep.join(parts)
RECURSIVE join(_, _)
join(sep, parts) ==
    IF parts = <<>> THEN <<>>
    ELSE IF Len(parts) = 1 THEN parts[1]
    ELSE parts[1] \o sep \o join(sep, Tail(parts))

partition_key(key) == join(<<" ">>, grouper(key, 4, " "))

PartitionKey(key) ==
    /\ UNCHANGED <<ENCRYPTION, registry, store>>
    /\ lastCall' = [Call("partition_key", "str") EXCEPT
                       !.key = key, !.rendered = partition_key(key)]

PartitionKeyAny == \E key \in Keys : PartitionKey(key)

(***************************************************************************)
(* Specifications.  Next is every call a host can make on the manager.     *)
(* The pairwise operations read and write account, sessions, db_olmaccount *)
(* and db_olmsessions only, the group operations inbound_group_sessions    *)
(* and db_inbound_group_sessions only, so the two halves are also explored *)
(* on their own, each with save and load.                                  *)
(***************************************************************************)
Next ==
    \/ DecryptAny
    \/ CreateGroupSessionAny
    \/ GroupDecryptAny
    \/ ToSessionDir
    \/ FromSessionDir
    \/ MarkKeysAsPublished
    \/ SignJson

Spec == Init /\ [][Next]_vars

NextPairwise ==
    \/ DecryptAny
    \/ ToSessionDir
    \/ FromSessionDir

SpecPairwise == Init /\ [][NextPairwise]_vars

NextGroup ==
    \/ CreateGroupSessionAny
    \/ GroupDecryptAny
    \/ ToSessionDir
    \/ FromSessionDir

SpecGroup == Init /\ [][NextGroup]_vars

\* the group half together with the two calls that touch the account only
NextGate ==
    \/ CreateGroupSessionAny
    \/ GroupDecryptAny
    \/ ToSessionDir
    \/ FromSessionDir
    \/ MarkKeysAsPublished
    \/ SignJson

SpecGate == Init /\ [][NextGate]_vars

\* the calls that change the account, with save and load
NextAccount ==
    \/ DecryptAny
    \/ MarkKeysAsPublished
    \/ ToSessionDir
    \/ FromSessionDir

SpecAccount == Init /\ [][NextAccount]_vars

\* the group half and mark_keys_as_published, with managers constructed
\* again on the same store
NextConstruct ==
    \/ OlmInit
    \/ CreateGroupSessionAny
    \/ GroupDecryptAny
    \/ MarkKeysAsPublished
    \/ ToSessionDir
    \/ FromSessionDir

SpecConstruct == Init /\ [][NextConstruct]_vars

\* loads from a store some of whose pickles have been damaged
NextLoad ==
    \/ DecryptFirst
    \/ CreateGroupSessionAny
    \/ CorruptAccount
    \/ CorruptSession
    \/ CorruptGroupSession
    \/ FromSessionDir

SpecLoad == Init /\ [][NextLoad]_vars

\* calls during which the store fails, among first messages that go well
NextStoreFailure ==
    \/ DecryptFirst
    \/ DecryptStoreFailsAny
    \/ CreateGroupSessionStoreFailsAny
    \/ ToSessionDirStoreFails
    \/ FromSessionDirStoreFails

SpecStoreFailure == Init /\ [][NextStoreFailure]_vars

\* partition_key is a function of its argument alone
NextPartition == PartitionKeyAny

SpecPartition == Init /\ [][NextPartition]_vars


(***************************************************************************)
(* Properties.                                                             *)
(***************************************************************************)
\* the step just taken is a call of op on the manager with the gate on
Called(op) == ENCRYPTION /\ lastCall'.op = op

\* the rows of olmsessions kept for session_id of sender
SessionRows(table, sender, session_id) ==
    {i \in DOMAIN table : table[i].user = sender /\ table[i].session_id = session_id}

\* positions named in a trace of positions
Range(seq) == {seq[i] : i \in DOMAIN seq}

\* the session that produced the plaintext of the last decrypt call: the
\* existing session that hit, or else the one bootstrapped at the end
DecryptingPosition ==
    IF lastCall.hit # 0 THEN lastCall.hit ELSE Len(sessions[lastCall.sender])

\* C1: in every state in which decrypt has returned a plaintext, the
\* olmsessions row of the session that decrypted it holds the pickle of that
\* session's in-memory (ratchet-advanced) state, whether the session existed
\* before the call or was bootstrapped by it.
C1_PairwiseCrashConsistency ==
    (lastCall.op = "decrypt" /\ lastCall.ret = "plaintext") =>
        LET session == sessions[lastCall.sender][DecryptingPosition]
            rows == SessionRows(db_olmsessions, lastCall.sender, session.id)
        IN /\ rows # {}
           /\ \A i \in rows : db_olmsessions[i].pickle = Pickle(session)

\* a valid initial message for the account: a pre-key message that
\* authenticates and names a one-time key the account still holds
ValidInitial(acc, message) == message.prekey /\ message.mac /\ message.sid \in acc.otks

\* C2: for a sender whose session list is empty, decrypt on a valid pre-key
\* message creates exactly one session in that sender's list (and none in
\* any other), appends exactly one row to olmsessions, rewrites the account
\* row with the account without the used one-time key, and returns the
\* plaintext of the message.
C2_BootstrapFromEmpty ==
    [][(/\ Called("decrypt")
        /\ sessions[lastCall'.sender] = <<>>
        /\ ValidInitial(account, lastCall'.message))
       => LET sender == lastCall'.sender
              message == lastCall'.message
          IN /\ Len(sessions'[sender]) = 1
             /\ sessions'[sender][1].id = InboundSession(message).id
             /\ \A other \in Senders \ {sender} : sessions'[other] = sessions[other]
             /\ Len(db_olmsessions') = Len(db_olmsessions) + 1
             /\ SubSeq(db_olmsessions', 1, Len(db_olmsessions)) = db_olmsessions
             /\ LET row == db_olmsessions'[Len(db_olmsessions')]
                IN row.user = sender /\ row.session_id = sessions'[sender][1].id
             /\ account' = RemoveOneTimeKeys(account, InboundSession(message))
             /\ message.sid \notin account'.otks
             /\ Len(db_olmaccount') = Len(db_olmaccount)
             /\ \A i \in DOMAIN db_olmaccount' :
                    db_olmaccount'[i].user = user =>
                        db_olmaccount'[i].pickle = Pickle(account')
             /\ lastCall'.ret = "plaintext"
             /\ lastCall'.plaintext = PlaintextOf(message)]_vars

\* C2 witness: a decrypt call bootstrapped the first session of its sender
\* and returned the plaintext
C2_Witness ==
    /\ lastCall.op = "decrypt"
    /\ lastCall.created
    /\ lastCall.ret = "plaintext"
    /\ Len(sessions[lastCall.sender]) = 1
    /\ Len(db_olmsessions) = 1

\* C3: for a sender whose session list is empty, and more generally whenever
\* no existing session succeeds, decrypt on a non-initial message returns
\* absent, creates no session, leaves the three tables unchanged and makes
\* no attempt to bootstrap a session.
C3_NoBootstrapFromNonInitial ==
    [][(/\ Called("decrypt")
        /\ ~lastCall'.message.prekey
        /\ lastCall'.hit = 0)
       => /\ lastCall'.ret = "None"
          /\ sessions' = sessions
          /\ store' = store
          /\ ~lastCall'.create_called]_vars


Minimum(S) == CHOOSE x \in S : \A y \in S : x <= y

\* C4: decrypt tries the sender's sessions in creation order, passes over a
\* session whose decrypt fails, and returns the plaintext of the earliest
\* session that decrypts: an earlier failure never keeps a later session
\* from being tried, and nothing after the first success is attempted.
C4_EarliestSessionWins ==
    [][Called("decrypt")
       => LET sender == lastCall'.sender
              message == lastCall'.message
              list == sessions[sender]
              tried == lastCall'.attempted
              able == {j \in DOMAIN list : SessionDecryptOk(list[j], message)}
          IN /\ Range(tried) \subseteq DOMAIN list
             /\ \A a, b \in DOMAIN tried : a < b => tried[a] < tried[b]
             /\ able = {} => lastCall'.hit = 0
             /\ able # {} =>
                   LET first == Minimum(able)
                   IN /\ lastCall'.hit = first
                      /\ lastCall'.ret = "plaintext"
                      /\ lastCall'.plaintext = PlaintextOf(message)
                      /\ sessions'[sender][first] = SessionAfterDecrypt(list[first], message)
                      /\ tried # <<>> /\ tried[Len(tried)] = first
                      /\ \A j \in Range(tried) \ {first} :
                            /\ j < first
                            /\ ~SessionDecryptOk(list[j], message)
                            /\ sessions'[sender][j] = list[j]
                      /\ \A j \in (first + 1)..Len(list) : sessions'[sender][j] = list[j]]_vars

\* C4 witness: the second session of a sender decrypted a message after the
\* first one had been tried and had failed
C4_Witness ==
    /\ lastCall.op = "decrypt"
    /\ lastCall.ret = "plaintext"
    /\ lastCall.attempted = <<1, 2>>
    /\ lastCall.hit = 2

\* C5: for a pre-key message decrypt never calls decrypt on an existing
\* session whose matches() rejects the message, and such a session is left
\* as it was; for any other message matches() is not consulted and every
\* existing session up to the first success is attempted.
C5_MatchBeforeDecrypt ==
    [][Called("decrypt")
       => LET sender == lastCall'.sender
              message == lastCall'.message
              list == sessions[sender]
              tried == lastCall'.attempted
              last == IF lastCall'.hit # 0 THEN lastCall'.hit ELSE Len(list)
          IN IF message.prekey
             THEN /\ \A j \in Range(tried) : SessionMatches(list[j], message)
                  /\ Range(lastCall'.consulted) = 1..last
                  /\ \A j \in DOMAIN list :
                        ~SessionMatches(list[j], message) =>
                            j \notin Range(tried) /\ sessions'[sender][j] = list[j]
             ELSE /\ lastCall'.consulted = <<>>
                  /\ Len(tried) = last
                  /\ \A j \in 1..last : tried[j] = j]_vars

\* C5 witness: a pre-key message was held against two existing sessions and
\* decrypt was called on the second only, the first not matching it
C5_Witness ==
    /\ lastCall.op = "decrypt"
    /\ lastCall.message.prekey
    /\ lastCall.consulted = <<1, 2>>
    /\ lastCall.attempted = <<2>>


\* the rows of inbound_group_sessions kept for session_id of room_id
GroupRows(table, room_id, session_id) ==
    {i \in DOMAIN table : table[i].room_id = room_id /\ table[i].session_id = session_id}

\* C6: whenever group_decrypt has returned a plaintext, the
\* inbound_group_sessions row of the session that decrypted it holds the
\* pickle of that session's in-memory (advanced) state, so that a reload
\* right after the call restores the same group session.
C6_GroupCrashConsistency ==
    (lastCall.op = "group_decrypt" /\ lastCall.ret = "plaintext") =>
        LET session == DictGet(inbound_group_sessions[lastCall.room_id],
                               lastCall.session_id)
            rows == GroupRows(db_inbound_group_sessions, lastCall.room_id, session.id)
        IN /\ rows # {}
           /\ \A i \in rows : db_inbound_group_sessions[i].pickle = Pickle(session)

\* C7: save (to_session_dir) followed by load (from_session_dir) yields the
\* registries the manager held before the save: every sender with the same
\* sessions in the same order and state, every group session with the same
\* state under the same (room, session identity) key.
C7_SaveLoadRoundTrip ==
    [][(ENCRYPTION /\ lastCall.op = "to_session_dir" /\ lastCall'.op = "from_session_dir")
       => /\ sessions' = sessions
          /\ inbound_group_sessions' = inbound_group_sessions]_vars

\* C8: while ENCRYPTION is off every call on the manager returns None,
\* raises nothing and changes neither the registries nor the tables.
C8_GateOffIsNoOp ==
    [][~ENCRYPTION
       => /\ lastCall'.ret = "None"
          /\ registry' = registry
          /\ store' = store]_vars

\* C9: create_group_session(room, sid, key) leaves exactly one session under
\* (room, sid), the one built from key, whatever was registered there
\* before, and touches no other entry; group_decrypt(room, sid, ciphertext)
\* is dispatched to the session registered under (room, sid), so that right
\* after the provisioning a ciphertext produced under key yields its
\* plaintext; the registry never holds two sessions under one (room, sid).
C9_GroupDispatch ==
    [][/\ (Called("create_group_session") /\ lastCall'.ret = "None") =>
            LET room_id == lastCall'.room_id
                session_id == lastCall'.session_id
            IN /\ {e \in inbound_group_sessions'[room_id] : e.key = session_id}
                    = {[key |-> session_id,
                        value |-> InboundGroupSession(lastCall'.session_key)]}
               /\ \A e \in inbound_group_sessions[room_id] :
                      e.key # session_id => e \in inbound_group_sessions'[room_id]
               /\ \A other \in Rooms \ {room_id} :
                      inbound_group_sessions'[other] = inbound_group_sessions[other]
       /\ (/\ Called("group_decrypt")
           /\ GroupSessionKnown(inbound_group_sessions, lastCall'.room_id,
                                lastCall'.session_id)) =>
            LET room_id == lastCall'.room_id
                session_id == lastCall'.session_id
                ciphertext == lastCall'.ciphertext
                session == DictGet(inbound_group_sessions[room_id], session_id)
            IN IF ciphertext.gid = session.id
               THEN /\ lastCall'.ret = "plaintext"
                    /\ lastCall'.plaintext = GroupPlaintextOf(ciphertext)
                    /\ DictGet(inbound_group_sessions'[room_id], session_id)
                           = GroupAfterDecrypt(session, ciphertext)
               ELSE lastCall'.ret = "None"
       /\ (/\ lastCall.op = "create_group_session" /\ lastCall.ret = "None"
           /\ Called("group_decrypt")
           /\ lastCall'.room_id = lastCall.room_id
           /\ lastCall'.session_id = lastCall.session_id
           /\ lastCall'.ciphertext.gid = InboundGroupSession(lastCall.session_key).id) =>
            /\ lastCall'.ret = "plaintext"
            /\ lastCall'.plaintext = GroupPlaintextOf(lastCall'.ciphertext)
       /\ \A room_id \in Rooms, session_id \in GroupSessionIds :
            Cardinality({e \in inbound_group_sessions'[room_id] : e.key = session_id}) <= 1]_vars

\* C9 witness: a (room, sid) was provisioned a second time with another key
\* (two rows of the room, one registered session) and group_decrypt on it
\* returned the plaintext of a ciphertext of the later key
C9_Witness ==
    /\ lastCall.op = "group_decrypt"
    /\ lastCall.ret = "plaintext"
    /\ Len(db_inbound_group_sessions) = 2
    /\ db_inbound_group_sessions[1].room_id = lastCall.room_id
    /\ db_inbound_group_sessions[2].room_id = lastCall.room_id
    /\ db_inbound_group_sessions[1].session_id # db_inbound_group_sessions[2].session_id
    /\ db_inbound_group_sessions[2].session_id = lastCall.ciphertext.gid
    /\ Cardinality(inbound_group_sessions[lastCall.room_id]) = 1

\* C10: group_decrypt on a (room, session_id) that is not registered returns
\* None, and no group_decrypt call, successful or not, adds or removes a
\* (room, session identity) of the registry or a row of the table.
C10_GroupDecryptNeverCreates ==
    [][Called("group_decrypt")
       => /\ ~GroupSessionKnown(inbound_group_sessions, lastCall'.room_id,
                                lastCall'.session_id)
                => lastCall'.ret = "None"
          /\ \A room_id \in Rooms :
                DictKeys(inbound_group_sessions'[room_id])
                    = DictKeys(inbound_group_sessions[room_id])
          /\ db_inbound_group_sessions' = db_inbound_group_sessions]_vars

\* C10 witness: group_decrypt returned None for a session identity that is
\* not registered in a room that holds another session
C10_Witness ==
    /\ lastCall.op = "group_decrypt"
    /\ lastCall.ret = "None"
    /\ inbound_group_sessions[lastCall.room_id] # {}
    /\ lastCall.session_id \notin DictKeys(inbound_group_sessions[lastCall.room_id])

\* the session identities of a list, in list order
SessionIds(session_list) == [i \in DOMAIN session_list |-> session_list[i].id]

\* C13: with the gate on, in every state no sender's session list holds two
\* sessions with the same session id and olmsessions holds no two rows with
\* the same (user, session_id), whatever decrypt calls were made: the same
\* pre-key message delivered again, and pre-key messages whose matching
\* session fails to decrypt them.
C13_PairwiseSessionUniqueness ==
    ENCRYPTION =>
        /\ \A sender \in Senders :
              \A i, j \in DOMAIN sessions[sender] :
                 sessions[sender][i].id = sessions[sender][j].id => i = j
        /\ \A i, j \in DOMAIN db_olmsessions :
              (/\ db_olmsessions[i].user = db_olmsessions[j].user
               /\ db_olmsessions[i].session_id = db_olmsessions[j].session_id) => i = j

\* C13 witness: an authentic pre-key message was delivered to a sender whose
\* list already holds the session it matches; that session was tried and
\* failed on it, _create_session was called, and no session was created
C13_Witness ==
    /\ lastCall.op = "decrypt"
    /\ lastCall.message.prekey
    /\ lastCall.message.mac
    /\ lastCall.attempted # <<>>
    /\ lastCall.hit = 0
    /\ lastCall.create_called
    /\ ~lastCall.created
    /\ \E i \in DOMAIN sessions[lastCall.sender] :
          sessions[lastCall.sender][i].id = lastCall.message.sid

\* C18: a single decrypt call creates at most one new session and calls
\* decrypt on it exactly once.  When _create_session fails, the call returns
\* None and leaves registry and store as they were; when the one attempt on
\* the new session fails, the call returns None with that one session added
\* as it was created: nothing is tried or created a second time.
C18_BootstrapBoundedTerminal ==
    [][Called("decrypt")
       => LET sender == lastCall'.sender
              message == lastCall'.message
              added == Len(sessions'[sender]) - Len(sessions[sender])
          IN /\ added \in {0, 1}
             /\ \A other \in Senders \ {sender} : sessions'[other] = sessions[other]
             /\ Len(db_olmsessions') - Len(db_olmsessions) = added
             /\ lastCall'.created <=> added = 1
             /\ lastCall'.created <=> lastCall'.retried
             /\ lastCall'.created => lastCall'.create_called
             /\ (lastCall'.create_called /\ ~lastCall'.created) =>
                    /\ lastCall'.ret = "None"
                    /\ registry' = registry
                    /\ store' = store
             /\ lastCall'.created =>
                    LET new == sessions'[sender][Len(sessions'[sender])]
                    IN /\ Len(sessions'[sender]) = Len(sessions[sender]) + 1
                       /\ new.id = InboundSession(message).id
                       /\ IF lastCall'.ret = "None"
                          THEN new = InboundSession(message)
                          ELSE /\ lastCall'.ret = "plaintext"
                               /\ new = SessionAfterDecrypt(InboundSession(message), message)]_vars

\* C18 witness: a session was created from a pre-key message that does not
\* authenticate; the one attempt on the new session failed and decrypt
\* returned None
C18_Witness ==
    /\ lastCall.op = "decrypt"
    /\ lastCall.created
    /\ lastCall.retried
    /\ ~lastCall.message.mac
    /\ lastCall.ret = "None"

\* s is a prefix of t
IsPrefix(s, t) == Len(s) <= Len(t) /\ \A i \in DOMAIN s : s[i] = t[i]

\* C19: over every step (decrypt, save, load) the session identities of each
\* sender's list before the step are a prefix of those after it, and a
\* session created by decrypt is the last of its sender's list.
C19_SessionListsAppendOnly ==
    [][ENCRYPTION
       => /\ \A sender \in Senders :
                IsPrefix(SessionIds(sessions[sender]), SessionIds(sessions'[sender]))
          /\ (lastCall'.op = "decrypt" /\ lastCall'.created) =>
                LET sender == lastCall'.sender
                IN /\ Len(sessions'[sender]) = Len(sessions[sender]) + 1
                   /\ sessions'[sender][Len(sessions'[sender])].id = lastCall'.message.sid]_vars

\* C19 witness: decrypt created a session for a sender that already had
\* one; the new one stands behind the older one
C19_Witness ==
    /\ lastCall.op = "decrypt"
    /\ lastCall.created
    /\ Len(sessions[lastCall.sender]) = 2
    /\ sessions[lastCall.sender][1].id # lastCall.message.sid
    /\ sessions[lastCall.sender][2].id = lastCall.message.sid

\* the (sender, session id) pairs of the registry and of olmsessions
RegistryKeys ==
    UNION {{<<sender, sessions[sender][i].id>> : i \in DOMAIN sessions[sender]} :
              sender \in Senders}
StoreKeys ==
    {<<db_olmsessions[i].user, db_olmsessions[i].session_id>> : i \in DOMAIN db_olmsessions}

\* C20: with the gate on, in every state reached from a constructed or a
\* loaded manager by decrypt calls (and saves) the (sender, session id)
\* pairs of the registry are the (user, session_id) pairs of olmsessions;
\* and after a decrypt that created a session and returned None the session
\* is in the sender's list, has its row, and its one-time key is gone from
\* the account in memory and in the account row.
C20_RegistryStoreCorrespondence ==
    ENCRYPTION =>
        /\ RegistryKeys = StoreKeys
        /\ (lastCall.op = "decrypt" /\ lastCall.created /\ lastCall.ret = "None") =>
              LET key == <<lastCall.sender, lastCall.message.sid>>
              IN /\ key \in RegistryKeys
                 /\ key \in StoreKeys
                 /\ lastCall.message.sid \notin account.otks
                 /\ \A i \in DOMAIN db_olmaccount :
                       db_olmaccount[i].pickle = Pickle(account)

\* C20 witness: decrypt created a second session whose attempt failed (None
\* returned); the session is registered and has its row
C20_Witness ==
    /\ lastCall.op = "decrypt"
    /\ lastCall.created
    /\ lastCall.ret = "None"
    /\ <<lastCall.sender, lastCall.message.sid>> \in RegistryKeys \cap StoreKeys
    /\ Len(db_olmsessions) = 2

\* C14: in every state the inbound_group_sessions table holds at most one
\* row per (room_id, session_id), whatever create_group_session calls were
\* made, a session provisioned again included.
C14_GroupRowUniqueness ==
    \A i, j \in DOMAIN db_inbound_group_sessions :
        (/\ db_inbound_group_sessions[i].room_id = db_inbound_group_sessions[j].room_id
         /\ db_inbound_group_sessions[i].session_id
                = db_inbound_group_sessions[j].session_id) => i = j

\* C16: every decrypt or mark_keys_as_published step that changes the
\* in-memory Account leaves the user's olmaccount row holding the pickle of
\* the Account as it is after the step, with no to_session_dir needed.
C16_AccountDurability ==
    [][(/\ Called("decrypt") \/ Called("mark_keys_as_published")
        /\ account' # account)
       => \A i \in DOMAIN db_olmaccount' :
             db_olmaccount'[i].user = user
                => db_olmaccount'[i].pickle = Pickle(account')]_vars

\* C15: with the gate on, in every state reached by constructing and loading
\* managers on the same store the olmaccount table holds exactly one row of
\* the user: a fresh Account is inserted only when the table holds none.
C15_SingleAccountRow ==
    ENCRYPTION =>
        Cardinality({i \in DOMAIN db_olmaccount : db_olmaccount[i].user = user}) = 1

\* C17: for every key of n >= 1 characters, partition_key returns
\* ceil(n/4) groups of 4 characters with one space between neighbouring
\* groups; the characters of the groups, read in order, are the characters
\* of the key, followed in the last group only by as many spaces as fill it
\* up to 4.  A key of 32 characters gives 8 groups without padding, one of
\* 30 characters gives 8 groups and two spaces of padding.
C17_PartitionKey ==
    (lastCall.op = "partition_key" /\ Len(lastCall.key) >= 1) =>
        LET key == lastCall.key
            n == Len(key)
            groups == (n + 3) \div 4
            rendered == lastCall.rendered
        IN /\ Len(rendered) = 5 * groups - 1
           /\ \A k \in 1 .. groups - 1 : rendered[5 * k] = " "
           /\ \A k \in 1 .. groups, j \in 1 .. 4 :
                 LET p == 4 * (k - 1) + j
                 IN /\ rendered[5 * (k - 1) + j] = IF p <= n THEN key[p] ELSE " "
                    /\ p > n => k = groups
           /\ n = 32 => groups = 8 /\ rendered[Len(rendered)] = key[32]
           /\ n = 30 => /\ groups = 8
                        /\ rendered[Len(rendered) - 2] = key[30]
                        /\ rendered[Len(rendered) - 1] = " "
                        /\ rendered[Len(rendered)] = " "

\* C17 witness: partition_key was applied to a key of 30 characters and its
\* result ends in two spaces
C17_Witness ==
    /\ lastCall.op = "partition_key"
    /\ Len(lastCall.key) = 30
    /\ Len(lastCall.rendered) = 39
    /\ lastCall.rendered[38] = " "
    /\ lastCall.rendered[39] = " "

\* a blob of the store that from_pickle rejects
AnyPickleRejected ==
    \/ \E i \in DOMAIN db_olmaccount : PickleRejected(db_olmaccount[i].pickle)
    \/ \E i \in DOMAIN db_olmsessions : PickleRejected(db_olmsessions[i].pickle)
    \/ \E i \in DOMAIN db_inbound_group_sessions :
          PickleRejected(db_inbound_group_sessions[i].pickle)

\* C11: every from_session_dir step on a store one of whose pickles (account
\* row, a pairwise session row or a group session row) is rejected raises
\* EncryptionError and builds no manager.
C11_LoadFailure ==
    [][(Called("from_session_dir") /\ AnyPickleRejected)
       => /\ lastCall'.ret = "raised"
          /\ lastCall'.error = "EncryptionError"
          /\ registry' = registry]_vars

\* C12: every call during which a statement on the store fails (decrypt
\* while it stores the new session or the account, create_group_session
\* while it stores the new group session, to_session_dir, from_session_dir)
\* ends by raising the store's exception to the caller: it returns neither
\* None nor any other value, and the exception is not replaced by another.
C12_StoreFailurePropagates ==
    [][lastCall'.store_failed # ""
       => /\ lastCall'.ret = "raised"
          /\ lastCall'.error = "sqlite3.Error"]_vars

\* C12 witness: decrypt had created a session from a pre-key message when
\* the store failed in _update_acc_in_db, and the call raised
C12_Witness ==
    /\ lastCall.op = "decrypt"
    /\ lastCall.store_failed = "_update_acc_in_db"
    /\ lastCall.create_called
    /\ lastCall.message.prekey
    /\ lastCall.ret = "raised"
    /\ lastCall.message.sid \notin account.otks

====
